---- MODULE Spec2Model ----
(***************************************************************************)
(* Credential lifecycle of the humanoid-AI backend: the auth_tokens table  *)
(* (AuthToken), the HuggingFace credential pool (HuggingFaceToken), the    *)
(* assignment ledger (UserHFTokenAssignment) and the handlers that touch   *)
(* them: login, refresh, logout, admin revoke, revoke-all, cleanup, pool   *)
(* administration and credential resolution.                               *)
(*                                                                         *)
(* A raw signed token is identified by the jti it embeds; its claims       *)
(* (type, user, exp) travel with it in `minted` whether or not a row of    *)
(* auth_tokens still shadows it.  Time is a discrete clock `now`.          *)
(***************************************************************************)
EXTENDS Integers, Sequences, FiniteSets, TLC

\* ---------------------------------------------------------------- bounds
\* Spec: the session lifecycle with the pool, on a short clock
NumUsers == 2
MaxTime == 1
MaxJti == 4
MaxPool == 1
MaxDays == 1
\* SpecStore: the token store on a clock long enough for rows to expire
StoreMaxTime == 5
StoreMaxJti == 3
\* SpecConc: AuthToken.revoke() statement by statement
ConcMaxTime == 1
ConcMaxJti == 3
\* SpecPool: the selection step on a populated ledger
PoolSize == 4
PoolMaxJti == 4
\* SpecLogin: LoginView.post statement by statement, two logins in flight
LoginMaxPool == 2
LoginMaxJti == 4
LoginMaxInflight == 2
\* SpecLive: one session with an Assignment, until its refresh row expires
LiveMaxTime == 5
LiveMaxJti == 2
LiveMaxPool == 1
\* SpecRace: TokenRefreshView.post statement by statement, against revoke,
\* revoke-all and logout
RaceMaxTime == 1
RaceMaxJti == 4
RaceMaxInflight == 2
\* SpecBalance: logins one after the other on a fixed pool
BalanceMaxJti == 12

\* ------------------------------------------------------ program constants
\* settings.SIMPLE_JWT['ACCESS_TOKEN_LIFETIME'], in clock ticks
ACCESS_TOKEN_LIFETIME == 3
\* settings.SIMPLE_JWT['REFRESH_TOKEN_LIFETIME'], in clock ticks
REFRESH_TOKEN_LIFETIME == 4
\* settings.HUGGINGFACE_API_TOKEN, the fallback credential
HUGGINGFACE_API_TOKEN == 0
\* a NULL column / a missing cookie / None
NULL == -1
HTTP_200_OK == 200
HTTP_400_BAD_REQUEST == 400
HTTP_401_UNAUTHORIZED == 401
\* the answer to a request whose handler raised
HTTP_500_INTERNAL_SERVER_ERROR == 500

Users == 1..NumUsers
Days == 0..MaxDays

VARIABLES
    now,          \* timezone.now()
    next_jti,     \* the next jti the token collaborator mints
    minted,       \* jti -> claims of every signed token ever minted
    auth_tokens,  \* jti -> row of the auth_tokens table
    hf_tokens,    \* the huggingface_tokens table, in insertion order
    assignments,  \* the user_hf_token_assignments table, in insertion order
    revoking,     \* the refresh row an AuthToken.revoke() has saved and not
                  \* yet cascaded from, or NULL
    last,         \* the response of the last completed request
    inflight      \* the calls that have not returned yet: refresh jti -> a
                  \* LoginView.post, new access jti -> a TokenRefreshView.post

vars == <<now, next_jti, minted, auth_tokens, hf_tokens, assignments, revoking, last,
          inflight>>

RawTokens == DOMAIN minted

\* ------------------------------------------------------------- responses
Resp(op, status, user, refresh, access, hf, n) ==
    [op |-> op, status |-> status, user |-> user, refresh |-> refresh,
     access |-> access, hf |-> hf, n |-> n]

\* ------------------------------------------------------------ AuthToken
\* hashlib.sha256(token.encode()).hexdigest(): a digest, never the raw token,
\* and injective on the tokens the model mints.
hash_token(token) == <<"sha256", token>>

Lifetime(token_type) ==
    IF token_type = "access" THEN ACCESS_TOKEN_LIFETIME ELSE REFRESH_TOKEN_LIFETIME

\* A variant that already rejects at the instant of expiry
is_expired_at_expiry(row, t) == t >= row.expires_at

\* AuthToken.is_expired of a row
is_expired(row, t) == t > row.expires_at

\* AuthToken.is_valid of a row
is_valid(row, t) == ~row.is_revoked /\ ~is_expired(row, t)

\* related_name='access_tokens': the rows whose refresh_token is j
access_tokens(tokens, j) ==
    {c \in DOMAIN tokens : tokens[c].refresh_token = j}

\* AuthToken.objects.filter(token_hash=..., token_type=...).first()
FindByHash(tokens, raw, token_type) ==
    LET hit == {j \in DOMAIN tokens :
                    /\ tokens[j].token_hash = hash_token(raw)
                    /\ tokens[j].token_type = token_type}
    IN  IF hit = {} THEN NULL ELSE CHOOSE j \in hit : TRUE

\* The token-format collaborator (rest_framework_simplejwt): the signature
\* verifies, the token_type claim is the expected one, and the exp claim is
\* in the future.
StructOK(raw, token_type, t) ==
    /\ raw \in RawTokens
    /\ minted[raw].token_type = token_type
    /\ t < minted[raw].exp

\* A variant that never links the new row to a refresh row
save_token_to_db_unparented(tokens, user, raw, token_type, refresh_token_obj) ==
    [j \in DOMAIN tokens \cup {raw} |->
        IF j = raw
        THEN [user          |-> user,
              token_type    |-> token_type,
              token_hash    |-> hash_token(raw),
              expires_at    |-> minted'[raw].exp,
              revoked_at    |-> NULL,
              is_revoked    |-> FALSE,
              refresh_token |-> NULL]
        ELSE tokens[j]]

\* save_token_to_db: one INSERT into auth_tokens
save_token_to_db(tokens, user, raw, token_type, refresh_token_obj) ==
    [j \in DOMAIN tokens \cup {raw} |->
        IF j = raw
        THEN [user          |-> user,
              token_type    |-> token_type,
              token_hash    |-> hash_token(raw),
              expires_at    |-> minted'[raw].exp,
              revoked_at    |-> NULL,
              is_revoked    |-> FALSE,
              refresh_token |-> refresh_token_obj]
        ELSE tokens[j]]

\* The store-side part of CookieJWTAuthentication.authenticate: the lookup
\* of the access row by hash and the three rejections.
StoreValidate(tokens, raw, t) ==
    LET db_token == FindByHash(tokens, raw, "access")
    IN  IF db_token = NULL THEN "Token has been revoked or does not exist"
        ELSE IF tokens[db_token].is_revoked THEN "Token has been revoked"
        ELSE IF is_expired(tokens[db_token], t) THEN "Token has expired"
        ELSE "ok"

\* CookieJWTAuthentication.authenticate: the user, or NULL when the request
\* is not authenticated.
authenticate(tokens, raw, t) ==
    IF raw = NULL THEN NULL
    ELSE IF ~StructOK(raw, "access", t) THEN NULL
    ELSE IF StoreValidate(tokens, raw, t) # "ok" THEN NULL
    ELSE minted[raw].user

\* AuthToken.revoke on the in-memory row `self` (jti j): save(), then the
\* UPDATE of the non-revoked children of a refresh row.
\* A variant whose save() writes the flag and not the timestamp
revoke_save_flag_only(tokens, j, t) ==
    [tokens EXCEPT ![j].is_revoked = TRUE]

revoke_save(tokens, j, t) ==
    [tokens EXCEPT ![j].is_revoked = TRUE, ![j].revoked_at = t]

\* A variant whose cascade reaches no child
revoke_children_none(tokens, j, t) == tokens

revoke_children(tokens, j, t) ==
    [c \in DOMAIN tokens |->
        IF c \in access_tokens(tokens, j) /\ ~tokens[c].is_revoked
        THEN [tokens[c] EXCEPT !.is_revoked = TRUE, !.revoked_at = t]
        ELSE tokens[c]]

\* A variant without the `if not self.is_revoked` guard
revoke_unguarded(tokens, j, t) ==
    LET saved == revoke_save(tokens, j, t)
    IN  IF saved[j].token_type = "refresh"
        THEN revoke_children(saved, j, t)
        ELSE saved

revoke(tokens, j, t) ==
    IF ~tokens[j].is_revoked
    THEN LET saved == revoke_save(tokens, j, t)
         IN  IF saved[j].token_type = "refresh"
             THEN revoke_children(saved, j, t)
             ELSE saved
    ELSE tokens

\* A variant whose UPDATE does not filter on the user
revoke_all_tokens(tokens, user, t) ==
    [j \in DOMAIN tokens |->
        IF ~tokens[j].is_revoked
        THEN [tokens[j] EXCEPT !.is_revoked = TRUE, !.revoked_at = t]
        ELSE tokens[j]]

\* AuthToken.revoke_all_user_tokens
revoke_all_user_tokens(tokens, user, t) ==
    [j \in DOMAIN tokens |->
        IF tokens[j].user = user /\ ~tokens[j].is_revoked
        THEN [tokens[j] EXCEPT !.is_revoked = TRUE, !.revoked_at = t]
        ELSE tokens[j]]

\* The rows the filter of cleanup_expired_tokens matches (a NULL revoked_at
\* matches no comparison).
CleanupMatched(tokens, days_to_keep, t) ==
    LET cutoff_date == t - days_to_keep
    IN  {j \in DOMAIN tokens :
            \/ tokens[j].expires_at < cutoff_date
            \/ (tokens[j].revoked_at # NULL /\ tokens[j].revoked_at < cutoff_date)}

\* QuerySet.delete() with refresh_token on_delete=CASCADE: the rows and the
\* access rows that reference them.
CascadeDelete(tokens, rows) ==
    rows \cup {c \in DOMAIN tokens : tokens[c].refresh_token \in rows}

DeleteRows(tokens, rows) ==
    [j \in DOMAIN tokens \ rows |-> tokens[j]]

\* ------------------------------------------------ pool and assignments
\* token.assignments.filter(is_active=True).count()
active_count(ledger, h) ==
    Cardinality({i \in DOMAIN ledger :
                    ledger[i].hf_token = h /\ ledger[i].is_active})

\* HuggingFaceToken.objects.filter(is_active=True), in Meta.ordering
\* ['-created_at']: the newest entry first.
RECURSIVE available_from(_, _)
available_from(pool, h) ==
    IF h = 0 THEN <<>>
    ELSE (IF pool[h].is_active THEN <<h>> ELSE <<>>) \o available_from(pool, h - 1)

\* A variant in ascending created_at order: the oldest entry first
available_tokens_oldest_first(pool) ==
    LET newest_first == available_from(pool, Len(pool))
    IN  [k \in 1..Len(newest_first) |-> newest_first[Len(newest_first) + 1 - k]]

available_tokens(pool) == available_from(pool, Len(pool))

\* list.sort(key=lambda x: x[1]): a stable sort on the count
RECURSIVE insert_sorted(_, _)
insert_sorted(sorted, x) ==
    IF sorted = <<>> THEN <<x>>
    ELSE IF x[2] < Head(sorted)[2] THEN <<x>> \o sorted
    ELSE <<Head(sorted)>> \o insert_sorted(Tail(sorted), x)

\* A variant that leaves the usage list as the query returned it
sort_by_usage_skipped(usage) == usage

RECURSIVE sort_by_usage(_)
sort_by_usage(usage) ==
    IF usage = <<>> THEN <<>>
    ELSE insert_sorted(sort_by_usage(SubSeq(usage, 1, Len(usage) - 1)),
                       usage[Len(usage)])

\* A variant that takes the first entry the query returns, whatever its count
select_first_available(pool, ledger) ==
    LET available == available_tokens(pool)
    IN  IF available = <<>> THEN NULL ELSE available[1]

\* The selection step of LoginView._assign_hf_token: NULL when no entry is
\* active, else the first entry of the usage list sorted by count.
select_least_loaded(pool, ledger) ==
    LET available == available_tokens(pool)
        token_usage == [k \in 1..Len(available) |->
                            <<available[k], active_count(ledger, available[k])>>]
    IN  IF available = <<>> THEN NULL
        ELSE sort_by_usage(token_usage)[1][1]

\* A variant that keys the session by the principal
SessionIdOfUser(user, refresh_jti) == user

\* session_id = str(refresh['jti'])
SessionId(user, refresh_jti) == refresh_jti

\* LoginView._assign_hf_token: the ledger after the call
assign_hf_token(pool, ledger, user, session_id, t) ==
    LET selected_token == select_least_loaded(pool, ledger)
    IN  IF selected_token = NULL THEN ledger
        ELSE Append(ledger, [user               |-> user,
                             hf_token           |-> selected_token,
                             session_identifier |-> session_id,
                             is_active          |-> TRUE,
                             assigned_at        |-> t,
                             released_at        |-> NULL])

\* A variant whose UPDATE does not filter on is_active
release_hf_token_any(ledger, user, session_id, t) ==
    [i \in DOMAIN ledger |->
        IF /\ ledger[i].user = user
           /\ ledger[i].session_identifier = session_id
        THEN [ledger[i] EXCEPT !.is_active = FALSE, !.released_at = t]
        ELSE ledger[i]]

\* LogoutView._release_hf_token: the ledger after the UPDATE
release_hf_token(ledger, user, session_id, t) ==
    [i \in DOMAIN ledger |->
        IF /\ ledger[i].user = user
           /\ ledger[i].session_identifier = session_id
           /\ ledger[i].is_active
        THEN [ledger[i] EXCEPT !.is_active = FALSE, !.released_at = t]
        ELSE ledger[i]]

\* A variant whose query does not filter on the user
current_assignment_any_user(ledger, user) ==
    LET anyones == {i \in DOMAIN ledger : ledger[i].is_active}
    IN  IF anyones = {} THEN NULL
        ELSE CHOOSE i \in anyones : \A k \in anyones : k <= i

\* UserHFTokenAssignment.objects.filter(user=..., is_active=True).first() in
\* Meta.ordering ['-assigned_at']: the user's newest active assignment.
current_assignment(ledger, user) ==
    LET mine == {i \in DOMAIN ledger : ledger[i].user = user /\ ledger[i].is_active}
    IN  IF mine = {} THEN NULL
        ELSE CHOOSE i \in mine : \A k \in mine : k <= i

\* A variant that does not look at the entry's is_active flag
get_api_token_unchecked(pool, ledger, user) ==
    LET assignment == IF user = NULL THEN NULL ELSE current_assignment(ledger, user)
    IN  IF assignment # NULL
        THEN pool[ledger[assignment].hf_token].token
        ELSE HUGGINGFACE_API_TOKEN

\* HuggingFaceService._get_api_token
get_api_token(pool, ledger, user) ==
    LET assignment == IF user = NULL THEN NULL ELSE current_assignment(ledger, user)
    IN  IF assignment # NULL /\ pool[ledger[assignment].hf_token].is_active
        THEN pool[ledger[assignment].hf_token].token
        ELSE HUGGINGFACE_API_TOKEN

\* ------------------------------------------------------------ the state
Init ==
    /\ now = 0
    /\ next_jti = 1
    /\ minted = <<>>
    /\ auth_tokens = <<>>
    /\ hf_tokens = <<>>
    /\ assignments = <<>>
    /\ revoking = NULL
    /\ last = Resp("none", NULL, NULL, NULL, NULL, NULL, 0)
    /\ inflight = <<>>

\* The token collaborator mints a signed token: a fresh jti and an exp claim.
Mint(claims, jti, user, token_type, t) ==
    [j \in DOMAIN claims \cup {jti} |->
        IF j = jti
        THEN [user |-> user, token_type |-> token_type, exp |-> t + Lifetime(token_type)]
        ELSE claims[j]]

\* The clock advances.
Tick ==
    /\ now' = now + 1
    /\ UNCHANGED <<next_jti, minted, auth_tokens, hf_tokens, assignments, last, revoking, inflight>>

\* HuggingFaceTokenViewSet.perform_create / add_token: a new active entry
CreateHfToken ==
    /\ hf_tokens' = Append(hf_tokens,
                           [token |-> Len(hf_tokens) + 1, is_active |-> TRUE])
    /\ last' = Resp("create_hf_token", HTTP_200_OK, NULL, NULL, NULL, NULL, 0)
    /\ UNCHANGED <<now, next_jti, minted, auth_tokens, assignments, revoking, inflight>>

\* HuggingFaceTokenViewSet.toggle_active
ToggleActive(h) ==
    /\ h \in DOMAIN hf_tokens
    /\ hf_tokens[h].token # NULL
    /\ hf_tokens' = [hf_tokens EXCEPT ![h].is_active = ~hf_tokens[h].is_active]
    /\ last' = Resp("toggle_active", HTTP_200_OK, NULL, NULL, NULL, NULL, 0)
    /\ UNCHANGED <<now, next_jti, minted, auth_tokens, assignments, revoking, inflight>>

\* HuggingFaceTokenViewSet.destroy / delete_invalid_tokens: the row is deleted
\* and, hf_token being on_delete=CASCADE, so are the Assignments that
\* reference it.  The slot of a deleted entry stays behind with no token.
DeleteHfToken(h) ==
    /\ h \in DOMAIN hf_tokens
    /\ hf_tokens[h].token # NULL
    /\ hf_tokens' = [hf_tokens EXCEPT ![h] = [token |-> NULL, is_active |-> FALSE]]
    /\ assignments' = SelectSeq(assignments, LAMBDA row : row.hf_token # h)
    /\ last' = Resp("delete_hf_token", HTTP_200_OK, NULL, NULL, NULL, h, 0)
    /\ UNCHANGED <<now, next_jti, minted, auth_tokens, revoking, inflight>>

\* A variant that allocates the Assignment before it verifies the credentials
LoginRejectedAfterAssign(u) ==
    /\ assignments' = assign_hf_token(hf_tokens, assignments, u,
                                      SessionId(u, next_jti), now)
    /\ last' = Resp("login", HTTP_401_UNAUTHORIZED, u, NULL, NULL, NULL, 0)
    /\ UNCHANGED <<now, next_jti, minted, auth_tokens, hf_tokens, revoking, inflight>>

\* LoginView.post with credentials the backend rejects (authenticate()
\* returns None, or the account is disabled)
LoginRejected(u) ==
    /\ last' = Resp("login", HTTP_401_UNAUTHORIZED, u, NULL, NULL, NULL, 0)
    /\ UNCHANGED <<now, next_jti, minted, auth_tokens, hf_tokens, assignments, revoking, inflight>>

\* LoginView.post with valid credentials
Login(u) ==
    LET refresh == next_jti
        access == next_jti + 1
        session_id == SessionId(u, refresh)
    IN  /\ next_jti' = next_jti + 2
        /\ minted' = Mint(Mint(minted, refresh, u, "refresh", now),
                          access, u, "access", now)
        /\ assignments' = assign_hf_token(hf_tokens, assignments, u, session_id, now)
        /\ auth_tokens' =
             save_token_to_db(
                save_token_to_db(auth_tokens, u, refresh, "refresh", NULL),
                u, access, "access", refresh)
        /\ last' = Resp("login", HTTP_200_OK, u, refresh, access,
                        select_least_loaded(hf_tokens, assignments), 0)
        /\ UNCHANGED <<now, hf_tokens, revoking, inflight>>

\* LoginView.post statement by statement (no transaction encloses it).  A
\* login in flight is keyed by the jti of its refresh token.
InflightWith(calls, l, call) ==
    [k \in DOMAIN calls \cup {l} |-> IF k = l THEN call ELSE calls[k]]

InflightWithout(calls, l) ==
    [k \in DOMAIN calls \ {l} |-> calls[k]]

\* ... the credentials are verified, both tokens are minted, and
\* _assign_hf_token has read the active entries and their counts and has
\* picked selected_token
LoginBegin(u) ==
    LET refresh == next_jti
        access == next_jti + 1
    IN  /\ next_jti' = next_jti + 2
        /\ minted' = Mint(Mint(minted, refresh, u, "refresh", now),
                          access, u, "access", now)
        /\ inflight' = InflightWith(inflight, refresh,
                            [user           |-> u,
                             access         |-> access,
                             pc             |-> "selected",
                             selected_token |-> select_least_loaded(hf_tokens, assignments)])
        /\ UNCHANGED <<now, auth_tokens, hf_tokens, assignments, revoking, last>>

\* ... UserHFTokenAssignment.objects.create(...), or the return None
LoginAssign(l) ==
    /\ l \in DOMAIN inflight
    /\ inflight[l].pc = "selected"
    /\ (IF inflight[l].selected_token = NULL THEN TRUE
        ELSE hf_tokens[inflight[l].selected_token].token # NULL)
    /\ assignments' =
         IF inflight[l].selected_token = NULL THEN assignments
         ELSE Append(assignments,
                     [user               |-> inflight[l].user,
                      hf_token           |-> inflight[l].selected_token,
                      session_identifier |-> SessionId(inflight[l].user, l),
                      is_active          |-> TRUE,
                      assigned_at        |-> now,
                      released_at        |-> NULL])
    /\ inflight' = [inflight EXCEPT ![l].pc = "assigned"]
    /\ UNCHANGED <<now, next_jti, minted, auth_tokens, hf_tokens, revoking, last>>

\* ... save_token_to_db(user, refresh_token_str, 'refresh', request)
LoginSaveRefresh(l) ==
    /\ l \in DOMAIN inflight
    /\ inflight[l].pc = "assigned"
    /\ UNCHANGED <<now, next_jti, minted, hf_tokens, assignments, revoking, last>>
    /\ auth_tokens' = save_token_to_db(auth_tokens, inflight[l].user, l, "refresh", NULL)
    /\ inflight' = [inflight EXCEPT ![l].pc = "refresh_saved"]

\* ... save_token_to_db(user, access_token_str, 'access', request,
\* refresh_token_obj) and the 200 response with both cookies
LoginSaveAccess(l) ==
    /\ l \in DOMAIN inflight
    /\ inflight[l].pc = "refresh_saved"
    /\ l \in DOMAIN auth_tokens
    /\ UNCHANGED <<now, next_jti, minted, hf_tokens, assignments, revoking>>
    /\ auth_tokens' = save_token_to_db(auth_tokens, inflight[l].user,
                                       inflight[l].access, "access", l)
    /\ last' = Resp("login", HTTP_200_OK, inflight[l].user, l, inflight[l].access,
                    inflight[l].selected_token, 0)
    /\ inflight' = InflightWithout(inflight, l)

\* ... or an INSERT into auth_tokens raises (the store is unreachable or
\* rejects the row): the exception leaves the view and nothing that was
\* written before it is undone
LoginFails(l) ==
    /\ l \in DOMAIN inflight
    /\ inflight[l].pc \in {"assigned", "refresh_saved"}
    /\ last' = Resp("login", HTTP_500_INTERNAL_SERVER_ERROR, inflight[l].user,
                    NULL, NULL, NULL, 0)
    /\ inflight' = InflightWithout(inflight, l)
    /\ UNCHANGED <<now, next_jti, minted, auth_tokens, hf_tokens, assignments, revoking>>

\* A variant that serves the refresh from any row with that hash
RefreshLookupAnyRow(tokens, r, t) ==
    IF r = NULL THEN NULL
    ELSE LET j == FindByHash(tokens, r, "refresh")
         IN  IF j = NULL THEN NULL
             ELSE IF ~StructOK(r, "refresh", t) THEN NULL
             ELSE j

\* TokenRefreshView.post up to the mint: the refresh row the request is
\* served from, or NULL when it is answered 401 (no cookie, no non-revoked
\* refresh row with that hash, a row that is not is_valid(), or a token
\* RefreshToken(...) rejects).
RefreshLookup(tokens, r, t) ==
    IF r = NULL THEN NULL
    ELSE LET j == FindByHash(tokens, r, "refresh")
         IN  IF j = NULL THEN NULL
             ELSE IF tokens[j].is_revoked THEN NULL
             ELSE IF ~is_valid(tokens[j], t) THEN NULL
             ELSE IF ~StructOK(r, "refresh", t) THEN NULL
             ELSE j

\* TokenRefreshView.post, every rejection (401)
RefreshRejected(r) ==
    /\ RefreshLookup(auth_tokens, r, now) = NULL
    /\ last' = Resp("refresh", HTTP_401_UNAUTHORIZED, NULL, r, NULL, NULL, 0)
    /\ UNCHANGED <<now, next_jti, minted, auth_tokens, hf_tokens, assignments, revoking, inflight>>

\* TokenRefreshView.post, the success path
Refresh(r) ==
    LET db_refresh_token == RefreshLookup(auth_tokens, r, now)
        new_access_token == next_jti
    IN  /\ db_refresh_token # NULL
        /\ next_jti' = next_jti + 1
        /\ minted' = Mint(minted, new_access_token, minted[r].user, "access", now)
        /\ auth_tokens' =
             save_token_to_db(auth_tokens, auth_tokens[db_refresh_token].user,
                              new_access_token, "access", db_refresh_token)
        /\ last' = Resp("refresh", HTTP_200_OK, auth_tokens[db_refresh_token].user,
                        r, new_access_token, NULL, 0)
        /\ UNCHANGED <<now, hf_tokens, assignments, revoking, inflight>>

\* TokenRefreshView.post statement by statement (no transaction encloses
\* it).  A refresh in flight is keyed by the jti of the access token it mints.
\* ... the refresh row is looked up and found valid, RefreshToken(...)
\* accepts the cookie and the new access token is minted
RefreshBegin(r) ==
    LET db_refresh_token == RefreshLookup(auth_tokens, r, now)
        new_access_token == next_jti
    IN  /\ db_refresh_token # NULL
        /\ next_jti' = next_jti + 1
        /\ minted' = Mint(minted, new_access_token, minted[r].user, "access", now)
        /\ inflight' = InflightWith(inflight, new_access_token,
                            [user             |-> auth_tokens[db_refresh_token].user,
                             access           |-> new_access_token,
                             pc               |-> "validated",
                             selected_token   |-> NULL,
                             db_refresh_token |-> db_refresh_token])
        /\ UNCHANGED <<now, auth_tokens, hf_tokens, assignments, revoking, last>>

\* ... save_token_to_db(db_refresh_token.user, new_access_token, 'access',
\* request, db_refresh_token) and the 200 response with the access cookie
RefreshSave(l) ==
    /\ l \in DOMAIN inflight
    /\ inflight[l].pc = "validated"
    /\ inflight[l].db_refresh_token \in DOMAIN auth_tokens
    /\ UNCHANGED <<now, next_jti, minted, hf_tokens, assignments, revoking>>
    /\ auth_tokens' = save_token_to_db(auth_tokens, inflight[l].user, l, "access",
                                       inflight[l].db_refresh_token)
    /\ last' = Resp("refresh", HTTP_200_OK, inflight[l].user,
                    inflight[l].db_refresh_token, l, NULL, 0)
    /\ inflight' = InflightWithout(inflight, l)

\* ... or the refresh row was deleted in the meantime: the INSERT violates
\* the foreign key, the except branch answers 401
RefreshSaveFails(l) ==
    /\ l \in DOMAIN inflight
    /\ inflight[l].pc = "validated"
    /\ inflight[l].db_refresh_token \notin DOMAIN auth_tokens
    /\ last' = Resp("refresh", HTTP_401_UNAUTHORIZED, NULL, NULL, NULL, NULL, 0)
    /\ inflight' = InflightWithout(inflight, l)
    /\ UNCHANGED <<now, next_jti, minted, auth_tokens, hf_tokens, assignments, revoking>>

\* LogoutView: the permission check fails (IsAuthenticated)
LogoutUnauthenticated(a) ==
    /\ authenticate(auth_tokens, a, now) = NULL
    /\ last' = Resp("logout", HTTP_401_UNAUTHORIZED, NULL, NULL, NULL, NULL, 0)
    /\ UNCHANGED <<now, next_jti, minted, auth_tokens, hf_tokens, assignments, revoking, inflight>>

\* LogoutView.post: RefreshToken(refresh_token_str) raises, the except
\* branch answers 400
LogoutBadRefresh(a, r) ==
    /\ authenticate(auth_tokens, a, now) # NULL
    /\ r # NULL
    /\ ~StructOK(r, "refresh", now)
    /\ last' = Resp("logout", HTTP_400_BAD_REQUEST,
                    authenticate(auth_tokens, a, now), NULL, NULL, NULL, 0)
    /\ UNCHANGED <<now, next_jti, minted, auth_tokens, hf_tokens, assignments, revoking, inflight>>

\* The cookies a client that sent a logout with the cookies (a, r) holds once
\* it has applied the response: only the 200 response carries the two
\* delete_cookie headers.
cookies_after_logout(status, a, r) ==
    IF status = HTTP_200_OK THEN <<NULL, NULL>> ELSE <<a, r>>

\* LogoutView.post: the release, the deletes and the 200 response
Logout(a, r) ==
    LET user == authenticate(auth_tokens, a, now)
        db_refresh_token == IF r = NULL THEN NULL
                            ELSE FindByHash(auth_tokens, r, "refresh")
    IN  /\ user # NULL
        /\ (IF r = NULL THEN TRUE ELSE StructOK(r, "refresh", now))
        /\ assignments' =
             IF r = NULL THEN assignments
             ELSE release_hf_token(assignments, user, SessionId(user, r), now)
        /\ auth_tokens' =
             IF db_refresh_token = NULL THEN auth_tokens
             ELSE LET children == CascadeDelete(auth_tokens,
                                      access_tokens(auth_tokens, db_refresh_token))
                      rest == DeleteRows(auth_tokens, children)
                  IN  DeleteRows(rest, CascadeDelete(rest, {db_refresh_token}))
        /\ last' = Resp("logout", HTTP_200_OK, user, r, a, NULL, 0)
        /\ UNCHANGED <<now, next_jti, minted, hf_tokens, revoking, inflight>>

\* AuthTokenAdmin.revoke_tokens on one selected row: token.revoke() in one
\* piece.  n is 1 when the row was not revoked before the call.
RevokeTokens(j) ==
    /\ j \in DOMAIN auth_tokens
    /\ auth_tokens' = revoke(auth_tokens, j, now)
    /\ last' = Resp("revoke", HTTP_200_OK, auth_tokens[j].user,
                    IF auth_tokens[j].token_type = "refresh" THEN j ELSE NULL,
                    IF auth_tokens[j].token_type = "access" THEN j ELSE NULL,
                    NULL, IF auth_tokens[j].is_revoked THEN 0 ELSE 1)
    /\ UNCHANGED <<now, next_jti, minted, hf_tokens, assignments, revoking, inflight>>

\* token.revoke() statement by statement (no transaction encloses it):
\* first self.save() ...
RevokeSave(j) ==
    /\ revoking = NULL
    /\ j \in DOMAIN auth_tokens
    /\ ~auth_tokens[j].is_revoked
    /\ auth_tokens' = revoke_save(auth_tokens, j, now)
    /\ revoking' = IF auth_tokens[j].token_type = "refresh" THEN j ELSE NULL
    /\ last' = IF auth_tokens[j].token_type = "refresh" THEN last
               ELSE Resp("revoke", HTTP_200_OK, auth_tokens[j].user, NULL, j, NULL, 1)
    /\ UNCHANGED <<now, next_jti, minted, hf_tokens, assignments, inflight>>

\* ... then self.access_tokens.filter(is_revoked=False).update(...)
RevokeCascade ==
    /\ revoking # NULL
    /\ auth_tokens' = revoke_children(auth_tokens, revoking, now)
    /\ revoking' = NULL
    /\ last' = Resp("revoke", HTTP_200_OK, minted[revoking].user, revoking, NULL, NULL, 1)
    /\ UNCHANGED <<now, next_jti, minted, hf_tokens, assignments, inflight>>

\* AuthToken.revoke_all_user_tokens(user)
RevokeAllUserTokens(u) ==
    /\ auth_tokens' = revoke_all_user_tokens(auth_tokens, u, now)
    /\ last' = Resp("revoke_all", HTTP_200_OK, u, NULL, NULL, NULL, 0)
    /\ UNCHANGED <<now, next_jti, minted, hf_tokens, assignments, revoking, inflight>>

\* AuthToken.cleanup_expired_tokens(days_to_keep): the cleanup_tokens
\* command and the admin action
CleanupExpiredTokens(days_to_keep) ==
    LET deleted == CascadeDelete(auth_tokens,
                                 CleanupMatched(auth_tokens, days_to_keep, now))
    IN  /\ auth_tokens' = DeleteRows(auth_tokens, deleted)
        /\ last' = Resp("cleanup", HTTP_200_OK, NULL, NULL, NULL, NULL,
                        Cardinality(deleted))
        /\ UNCHANGED <<now, next_jti, minted, hf_tokens, assignments, revoking, inflight>>

Cookies == RawTokens \cup {NULL}

\* The requests of the session lifecycle, for the principals 1..n
Requests(n) ==
    \/ \E u \in 1..n : LoginRejected(u)
    \/ \E r \in Cookies : RefreshRejected(r)
    \/ \E a \in Cookies : LogoutUnauthenticated(a)
    \/ \E a \in Cookies, r \in Cookies : LogoutBadRefresh(a, r)
    \/ \E a \in Cookies, r \in Cookies : Logout(a, r)
    \/ \E u \in 1..n : RevokeAllUserTokens(u)
    \/ \E d \in Days : CleanupExpiredTokens(d)

Next ==
    \/ (now < MaxTime /\ Tick)
    \/ (Len(hf_tokens) < MaxPool /\ CreateHfToken)
    \/ \E h \in DOMAIN hf_tokens : ToggleActive(h)
    \/ \E h \in DOMAIN hf_tokens : DeleteHfToken(h)
    \/ (next_jti + 1 <= MaxJti /\ \E u \in Users : Login(u))
    \/ (next_jti <= MaxJti /\ \E r \in Cookies : Refresh(r))
    \/ \E j \in DOMAIN auth_tokens : RevokeTokens(j)
    \/ Requests(NumUsers)

Spec == Init /\ [][Next]_vars

\* The token store alone: one principal, no pool entry, a longer clock
NextStore ==
    \/ (now < StoreMaxTime /\ Tick)
    \/ (next_jti + 1 <= StoreMaxJti /\ Login(1))
    \/ (next_jti <= StoreMaxJti /\ \E r \in Cookies : Refresh(r))
    \/ \E j \in DOMAIN auth_tokens : RevokeTokens(j)
    \/ Requests(1)

SpecStore == Init /\ [][NextStore]_vars

\* The token store with AuthToken.revoke() interleaved with other requests
NextConc ==
    \/ (now < ConcMaxTime /\ Tick)
    \/ (next_jti + 1 <= ConcMaxJti /\ Login(1))
    \/ (next_jti <= ConcMaxJti /\ \E r \in Cookies : Refresh(r))
    \/ \E j \in DOMAIN auth_tokens : RevokeSave(j)
    \/ RevokeCascade
    \/ Requests(1)

SpecConc == Init /\ [][NextConc]_vars

\* A ledger in which the pool entry h holds counts[h] active assignments of
\* sessions whose token rows are gone.
RECURSIVE LedgerOf(_, _, _)
LedgerOf(counts, h, k) ==
    IF h = 0 THEN <<>>
    ELSE IF k = 0 THEN LedgerOf(counts, h - 1, IF h = 1 THEN 0 ELSE counts[h - 1])
    ELSE Append(LedgerOf(counts, h, k - 1),
                [user               |-> 1,
                 hf_token           |-> h,
                 session_identifier |-> 0 - (10 * h + k),
                 is_active          |-> TRUE,
                 assigned_at        |-> 0,
                 released_at        |-> NULL])

PoolCounts == {0, 1, 3, 5}

InitPool ==
    /\ now = 0
    /\ next_jti = 1
    /\ minted = <<>>
    /\ auth_tokens = <<>>
    /\ hf_tokens = [h \in 1..PoolSize |-> [token |-> h, is_active |-> TRUE]]
    /\ \E counts \in [1..PoolSize -> PoolCounts] :
          assignments = LedgerOf(counts, PoolSize, counts[PoolSize])
    /\ revoking = NULL
    /\ last = Resp("none", NULL, NULL, NULL, NULL, NULL, 0)
    /\ inflight = <<>>

NextPool ==
    \/ \E h \in DOMAIN hf_tokens : ToggleActive(h)
    \/ (next_jti + 1 <= PoolMaxJti /\ Login(1))

SpecPool == InitPool /\ [][NextPool]_vars

\* Logins one after the other, by either principal, on a pool whose entries
\* keep the is_active flag they start with and a ledger that starts empty
InitBalance ==
    /\ now = 0
    /\ next_jti = 1
    /\ minted = <<>>
    /\ auth_tokens = <<>>
    /\ \E flags \in [1..PoolSize -> BOOLEAN] :
          hf_tokens = [h \in 1..PoolSize |-> [token |-> h, is_active |-> flags[h]]]
    /\ assignments = <<>>
    /\ revoking = NULL
    /\ last = Resp("none", NULL, NULL, NULL, NULL, NULL, 0)
    /\ inflight = <<>>

NextBalance ==
    next_jti + 1 <= BalanceMaxJti /\ \E u \in Users : Login(u)

SpecBalance == InitBalance /\ [][NextBalance]_vars

\* LoginView.post interleaved with pool administration, with other logins
\* and with logout
NextLogin ==
    \/ (Len(hf_tokens) < LoginMaxPool /\ CreateHfToken)
    \/ \E h \in DOMAIN hf_tokens : ToggleActive(h)
    \/ (/\ next_jti + 1 <= LoginMaxJti
        /\ Cardinality(DOMAIN inflight) < LoginMaxInflight
        /\ LoginBegin(1))
    \/ \E l \in DOMAIN inflight : LoginAssign(l)
    \/ \E l \in DOMAIN inflight : LoginSaveRefresh(l)
    \/ \E l \in DOMAIN inflight : LoginSaveAccess(l)
    \/ \E l \in DOMAIN inflight : LoginFails(l)
    \/ \E a \in Cookies, r \in Cookies : Logout(a, r)

SpecLogin == Init /\ [][NextLogin]_vars

\* TokenRefreshView.post interleaved with revoke, revoke-all and logout
NextRace ==
    \/ (now < RaceMaxTime /\ Tick)
    \/ (next_jti + 1 <= RaceMaxJti /\ Login(1))
    \/ (/\ next_jti <= RaceMaxJti
        /\ Cardinality(DOMAIN inflight) < RaceMaxInflight
        /\ \E r \in Cookies : RefreshBegin(r))
    \/ \E l \in DOMAIN inflight : RefreshSave(l)
    \/ \E l \in DOMAIN inflight : RefreshSaveFails(l)
    \/ \E j \in DOMAIN auth_tokens : RevokeTokens(j)
    \/ RevokeAllUserTokens(1)
    \/ \E a \in Cookies, r \in Cookies : Logout(a, r)

SpecRace == Init /\ [][NextRace]_vars

\* One session and the requests that can end it, on a clock that reaches the
\* expiry of its refresh row.  Every request that is sent is answered, and a
\* logout that can succeed again and again is eventually served.
LiveCookies == (1..LiveMaxJti) \cup {NULL}

NextLive ==
    \/ (now < LiveMaxTime /\ Tick)
    \/ (Len(hf_tokens) < LiveMaxPool /\ CreateHfToken)
    \/ (next_jti + 1 <= LiveMaxJti /\ Login(1))
    \/ \E j \in DOMAIN auth_tokens : RevokeTokens(j)
    \/ Requests(1)

FairLive ==
    /\ WF_vars(NextLive)
    /\ WF_vars(now < LiveMaxTime /\ Tick)
    /\ \A a \in LiveCookies, r \in LiveCookies : SF_vars(Logout(a, r))

SpecLive == Init /\ [][NextLive]_vars /\ FairLive

\* ------------------------------------------------------------ properties
\* The row that shadows the raw token j, by its hash: NULL once deleted
RowOf(j) ==
    LET hit == {k \in DOMAIN auth_tokens :
                    auth_tokens[k].token_hash = hash_token(j)}
    IN  IF hit = {} THEN NULL ELSE CHOOSE k \in hit : TRUE

\* C1 as stated: at every instant the store-side validation of an issued
\* access token succeeds iff its hash is in the store, the row is not
\* revoked and now < expires_at (strictly).
C1_ValidateIffStrict ==
    \A j \in RawTokens :
        minted[j].token_type = "access" =>
            ((StoreValidate(auth_tokens, j, now) = "ok")
                <=> /\ RowOf(j) # NULL
                    /\ ~auth_tokens[RowOf(j)].is_revoked
                    /\ now < auth_tokens[RowOf(j)].expires_at)

\* C1 amended: the store-side validation of an issued token succeeds iff it
\* is an access token whose hash is in the store, whose row is not revoked
\* and now <= expires_at: the row is rejected only once now > expires_at,
\* and the raw token of a refresh row never passes the access lookup.
C1_ValidateIff ==
    \A j \in RawTokens :
        (StoreValidate(auth_tokens, j, now) = "ok")
            <=> /\ minted[j].token_type = "access"
                /\ RowOf(j) # NULL
                /\ ~auth_tokens[RowOf(j)].is_revoked
                /\ now <= auth_tokens[RowOf(j)].expires_at

\* An access row at the very instant of its expiry, still accepted
C1_Witness ==
    \E j \in RawTokens :
        /\ minted[j].token_type = "access"
        /\ RowOf(j) # NULL
        /\ ~auth_tokens[RowOf(j)].is_revoked
        /\ now = auth_tokens[RowOf(j)].expires_at
        /\ StoreValidate(auth_tokens, j, now) = "ok"

\* C2: once revoke() has completed on a refresh row that was not revoked,
\* the row and every access row derived from it are revoked: no row of the
\* session that is still in the store is left non-revoked.
C2_RevokeCascades ==
    (last.op = "revoke" /\ last.refresh # NULL /\ last.n = 1) =>
        /\ last.refresh \in DOMAIN auth_tokens
              => auth_tokens[last.refresh].is_revoked
        /\ \A c \in access_tokens(auth_tokens, last.refresh) :
              auth_tokens[c].is_revoked

\* A completed revoke() of a refresh row with two access children
C2_Witness ==
    /\ last.op = "revoke" /\ last.refresh # NULL /\ last.n = 1
    /\ last.refresh \in DOMAIN auth_tokens
    /\ auth_tokens[last.refresh].is_revoked
    /\ Cardinality(access_tokens(auth_tokens, last.refresh)) = 2
    /\ \A c \in access_tokens(auth_tokens, last.refresh) : auth_tokens[c].is_revoked

\* C3 as stated: no reader ever sees a refresh row revoked while an access
\* row derived from it still passes the store-side validation.
C3_CascadeAtomic ==
    \A j \in DOMAIN auth_tokens :
        (auth_tokens[j].token_type = "refresh" /\ auth_tokens[j].is_revoked) =>
            \A c \in access_tokens(auth_tokens, j) :
                StoreValidate(auth_tokens, c, now) # "ok"

\* The session identifiers seen so far
SessionIds ==
    {assignments[i].session_identifier : i \in DOMAIN assignments}

ActiveFor(session_id) ==
    {i \in DOMAIN assignments :
        assignments[i].session_identifier = session_id /\ assignments[i].is_active}

\* C4: in every reachable state each session_identifier has at most one
\* Assignment with is_active = true.
C4_OneActivePerSession ==
    \A sid \in SessionIds : Cardinality(ActiveFor(sid)) <= 1

\* Two sessions in the ledger, one released and one still active
C4_Witness ==
    /\ \E i \in DOMAIN assignments : assignments[i].is_active
    /\ \E i \in DOMAIN assignments : ~assignments[i].is_active
    /\ \E sid \in SessionIds : Cardinality(ActiveFor(sid)) = 1

\* C5: release is idempotent and total.  On every reachable ledger, for
\* every principal and session identifier: the first call sets exactly the
\* matching active rows inactive with released_at = now; a second call,
\* even at a later instant, changes nothing; with no matching active row
\* the first call changes nothing either.  And a logout answered 200 leaves
\* no active Assignment of its principal for the session it presented.
C5_ReleaseIdempotent ==
    /\ \A u \in Users, sid \in SessionIds \cup RawTokens :
          LET once == release_hf_token(assignments, u, sid, now)
              twice == release_hf_token(once, u, sid, now + 1)
              hit == {i \in DOMAIN assignments :
                        /\ assignments[i].user = u
                        /\ assignments[i].session_identifier = sid
                        /\ assignments[i].is_active}
          IN  /\ twice = once
              /\ DOMAIN once = DOMAIN assignments
              /\ \A i \in hit : ~once[i].is_active /\ once[i].released_at = now
              /\ \A i \in DOMAIN assignments \ hit : once[i] = assignments[i]
    /\ (last.op = "logout" /\ last.status = HTTP_200_OK /\ last.refresh # NULL) =>
          \A i \in DOMAIN assignments :
              (assignments[i].user = last.user
                  /\ assignments[i].session_identifier = SessionId(last.user, last.refresh))
              => (~assignments[i].is_active /\ assignments[i].released_at # NULL)

\* A second logout of an already released session, at a later instant: the
\* Assignment still carries the released_at of the first release
C5_Witness ==
    /\ last.op = "logout" /\ last.status = HTTP_200_OK /\ last.refresh # NULL
    /\ \E i \in DOMAIN assignments :
          /\ assignments[i].user = last.user
          /\ assignments[i].session_identifier = SessionId(last.user, last.refresh)
          /\ ~assignments[i].is_active
          /\ assignments[i].released_at < now

\* No entry of the pool is active
PoolExhausted == \A h \in DOMAIN hf_tokens : ~hf_tokens[h].is_active

\* C8: a login with valid credentials while no pool entry is active is
\* answered 200 with both tokens bound, both rows are in the store and
\* pass validation, no Assignment is created for the session, and the
\* credential resolved for the user is the configured default.
C8_PoolExhaustedLogin ==
    (last.op = "login" /\ last.status = HTTP_200_OK /\ PoolExhausted) =>
        /\ last.refresh \in DOMAIN auth_tokens
        /\ last.access \in DOMAIN auth_tokens
        /\ auth_tokens[last.refresh].token_type = "refresh"
        /\ auth_tokens[last.access].refresh_token = last.refresh
        /\ RefreshLookup(auth_tokens, last.refresh, now) = last.refresh
        /\ authenticate(auth_tokens, last.access, now) = last.user
        /\ last.hf = NULL
        /\ ActiveFor(SessionId(last.user, last.refresh)) = {}
        /\ ~\E i \in DOMAIN assignments :
              assignments[i].session_identifier = SessionId(last.user, last.refresh)
        /\ get_api_token(hf_tokens, assignments, last.user) = HUGGINGFACE_API_TOKEN

\* Such a login by a user who still holds an active Assignment, from an
\* earlier session, to an entry deactivated since
C8_Witness ==
    /\ last.op = "login" /\ last.status = HTTP_200_OK /\ PoolExhausted
    /\ current_assignment(assignments, last.user) # NULL
    /\ get_api_token(hf_tokens, assignments, last.user) = HUGGINGFACE_API_TOKEN

\* The ledger before its last row was inserted
LedgerBeforeLast == SubSeq(assignments, 1, Len(assignments) - 1)

ActiveEntries == {h \in DOMAIN hf_tokens : hf_tokens[h].is_active}

\* h is an active entry with the fewest active Assignments in `ledger`
LeastLoaded(ledger, h) ==
    /\ h \in ActiveEntries
    /\ \A g \in ActiveEntries : active_count(ledger, h) <= active_count(ledger, g)

\* Every entry of a pool of four is active and entry h holds v[h] active
\* Assignments
CountsAre(v) ==
    /\ Len(hf_tokens) = 4
    /\ \A h \in DOMAIN hf_tokens :
          hf_tokens[h].is_active /\ active_count(assignments, h) = v[h]

\* C6: the selection step returns no entry exactly when no entry is active,
\* and otherwise an active entry whose count of active Assignments is
\* minimal among the active entries; the Assignment a login inserts is bound
\* to such an entry of the ledger it read.  With counts [3,1,1,5] it returns
\* one of the two count-1 entries and, after assigning to it, the other one.
C6_SelectLeastLoaded ==
    LET first == select_least_loaded(hf_tokens, assignments)
        ledger2 == assign_hf_token(hf_tokens, assignments, 1, 0, now)
        second == select_least_loaded(hf_tokens, ledger2)
    IN  /\ (first = NULL) <=> PoolExhausted
        /\ first # NULL => LeastLoaded(assignments, first)
        /\ (last.op = "login" /\ last.status = HTTP_200_OK /\ last.hf # NULL) =>
              /\ assignments[Len(assignments)].hf_token = last.hf
              /\ assignments[Len(assignments)].session_identifier
                    = SessionId(last.user, last.refresh)
              /\ LeastLoaded(LedgerBeforeLast, last.hf)
        /\ CountsAre(<<3, 1, 1, 5>>) =>
              /\ first \in {2, 3}
              /\ second \in {2, 3}
              /\ second # first

\* Two logins on the counts [3,1,1,5]: the second one took the other
\* count-1 entry
C6_Witness ==
    /\ CountsAre(<<3, 2, 2, 5>>)
    /\ last.op = "login" /\ last.status = HTTP_200_OK
    /\ Len(assignments) = 12
    /\ assignments[11].session_identifier = 1
    /\ assignments[12].session_identifier = 3
    /\ assignments[11].hf_token \in {2, 3}
    /\ assignments[12].hf_token \in {2, 3}
    /\ assignments[12].hf_token = last.hf
    /\ assignments[12].hf_token # assignments[11].hf_token

\* The active entries tied with h on the count of active Assignments
TiedWith(ledger, h) ==
    {g \in ActiveEntries : active_count(ledger, g) = active_count(ledger, h)}

\* C7 as stated: the Assignment a login inserts is bound, among the active
\* entries tied at the minimum count, to the one inserted first.
C7_TieFirstInserted ==
    (last.op = "login" /\ last.status = HTTP_200_OK /\ last.hf # NULL) =>
        /\ assignments[Len(assignments)].hf_token = last.hf
        /\ \A g \in TiedWith(LedgerBeforeLast, last.hf) : last.hf <= g

\* C7 amended: among the active entries tied at the minimum count the one
\* inserted last (the newest created_at) is chosen, by the selection step
\* and by the Assignment a login inserts.
C7_TieNewestWins ==
    LET h == select_least_loaded(hf_tokens, assignments)
    IN  /\ h # NULL => \A g \in TiedWith(assignments, h) : g <= h
        /\ (last.op = "login" /\ last.status = HTTP_200_OK /\ last.hf # NULL) =>
              /\ assignments[Len(assignments)].hf_token = last.hf
              /\ \A g \in TiedWith(LedgerBeforeLast, last.hf) : g <= last.hf

\* A login that found three entries tied at the minimum and took the newest
C7_Witness ==
    /\ last.op = "login" /\ last.status = HTTP_200_OK /\ last.hf # NULL
    /\ LeastLoaded(LedgerBeforeLast, last.hf)
    /\ Cardinality(TiedWith(LedgerBeforeLast, last.hf)) = 3
    /\ \A g \in TiedWith(LedgerBeforeLast, last.hf) : g <= last.hf

\* A step of the retention sweeper
CleanupStep == \E d \in Days : CleanupExpiredTokens(d)

\* C9 as stated: a cleanup never deletes a row that is not revoked and not
\* expired when it runs, whatever days_to_keep, whether the row is deleted
\* for itself or with its parent refresh row.
C9_CleanupKeepsValid ==
    [][CleanupStep =>
          \A j \in DOMAIN auth_tokens :
              (~auth_tokens[j].is_revoked /\ auth_tokens[j].expires_at > now)
                  => j \in DOMAIN auth_tokens']_vars

\* C10 as stated: cleanup(d) deletes every row whose expires_at or
\* revoked_at is earlier than now - d and keeps every row whose expiry and
\* revocation are both more recent than that.
C10_CleanupByCutoff ==
    [][\A d \in Days : CleanupExpiredTokens(d) =>
          \A j \in DOMAIN auth_tokens :
              /\ j \in CleanupMatched(auth_tokens, d, now)
                    => j \notin DOMAIN auth_tokens'
              /\ (/\ auth_tokens[j].expires_at > now - d
                  /\ (auth_tokens[j].revoked_at = NULL
                        \/ auth_tokens[j].revoked_at > now - d))
                    => j \in DOMAIN auth_tokens']_vars

\* The Assignments of the session whose refresh token is r, in a ledger
AssignmentsOf(ledger, r) ==
    {i \in DOMAIN ledger : ledger[i].session_identifier = SessionId(ledger[i].user, r)}

\* C11 as stated: a logout of a session that logged in (with an Assignment)
\* and refreshed twice leaves in the store exactly one refresh row of the
\* session, revoked, exactly three access rows, all revoked, and exactly one
\* Assignment, inactive with released_at set.
C11_EndToEnd ==
    [][\A a \in Cookies, r \in Cookies :
          (/\ r \in DOMAIN auth_tokens
           /\ auth_tokens[r].token_type = "refresh"
           /\ a \in access_tokens(auth_tokens, r)
           /\ Cardinality(access_tokens(auth_tokens, r)) = 3
           /\ AssignmentsOf(assignments, r) # {}
           /\ Logout(a, r))
          => /\ r \in DOMAIN auth_tokens'
             /\ auth_tokens'[r].is_revoked
             /\ Cardinality(access_tokens(auth_tokens', r)) = 3
             /\ \A c \in access_tokens(auth_tokens', r) : auth_tokens'[c].is_revoked
             /\ Cardinality(AssignmentsOf(assignments', r)) = 1
             /\ \A i \in AssignmentsOf(assignments', r) :
                   ~assignments'[i].is_active /\ assignments'[i].released_at # NULL]_vars

\* A logout request that presents the cookies (a, r) is answered
LogoutRequest(a, r) ==
    \/ LogoutUnauthenticated(a)
    \/ LogoutBadRefresh(a, r)
    \/ Logout(a, r)

\* C12 as stated: every logout that presents an access and a refresh token
\* that were issued, whatever has become of them since (logged out already,
\* revoked, deleted, expired), is answered 200 and leaves the client without
\* either cookie.
C12_LogoutIdempotent ==
    [][\A a \in RawTokens, r \in RawTokens :
          (/\ minted[a].token_type = "access"
           /\ minted[r].token_type = "refresh"
           /\ LogoutRequest(a, r))
          => /\ last'.status = HTTP_200_OK
             /\ cookies_after_logout(last'.status, a, r) = <<NULL, NULL>>]_vars

\* C13: a login whose credentials are rejected is answered 401 with no
\* token to bind, and the step leaves the token store, the ledger, the pool
\* and the minted tokens as they were.
C13_RejectedLoginNoState ==
    [][\A u \in Users :
          LoginRejected(u)
          => /\ UNCHANGED <<auth_tokens, assignments, hf_tokens, minted, next_jti>>
             /\ last'.op = "login"
             /\ last'.status = HTTP_401_UNAUTHORIZED
             /\ last'.refresh = NULL
             /\ last'.access = NULL]_vars

\* A rejected login of a principal while another session, with its two rows
\* and its active Assignment, is in the store
C13_Witness ==
    /\ last.op = "login"
    /\ last.status = HTTP_401_UNAUTHORIZED
    /\ last.refresh = NULL
    /\ last.access = NULL
    /\ Cardinality(DOMAIN auth_tokens) = 2
    /\ \E i \in DOMAIN assignments : assignments[i].is_active
    /\ \A i \in DOMAIN assignments : assignments[i].user # last.user

\* C14 as stated: when a login returns, with a response or with an error,
\* either both of its rows are in the store or nothing of it is: an
\* Assignment of its session is in the ledger only if its refresh row and
\* its first access row were inserted, and its refresh row is not there
\* without the access row.
C14_LoginAllOrNothing ==
    [][\A l \in DOMAIN inflight :
          l \notin DOMAIN inflight'
          => /\ AssignmentsOf(assignments', l) # {}
                   => /\ l \in DOMAIN auth_tokens'
                      /\ inflight[l].access \in access_tokens(auth_tokens', l)
             /\ l \in DOMAIN auth_tokens'
                   => inflight[l].access \in access_tokens(auth_tokens', l)]_vars

\* C15: a refresh answered 200 inserts exactly one row, an access row of
\* the owner of the presented refresh row, not revoked, whose parent is
\* that refresh row, and binds it as the new access credential; the
\* refresh row, every row that was in the store, the ledger and the pool
\* are as they were.
C15_RefreshFrame ==
    [][\A r \in RawTokens :
          Refresh(r)
          => LET new == DOMAIN auth_tokens' \ DOMAIN auth_tokens
             IN  /\ Cardinality(new) = 1
                 /\ DOMAIN auth_tokens \subseteq DOMAIN auth_tokens'
                 /\ \A j \in DOMAIN auth_tokens : auth_tokens'[j] = auth_tokens[j]
                 /\ \A c \in new :
                       /\ auth_tokens'[c].token_type = "access"
                       /\ auth_tokens'[c].refresh_token = RowOf(r)
                       /\ auth_tokens'[c].user = auth_tokens[RowOf(r)].user
                       /\ ~auth_tokens'[c].is_revoked
                       /\ last'.access = c
                 /\ last'.status = HTTP_200_OK
                 /\ UNCHANGED <<assignments, hf_tokens>>]_vars

\* A second refresh of a session that holds an active Assignment: the
\* refresh row has three access children, the newest one just bound
C15_Witness ==
    /\ last.op = "refresh"
    /\ last.status = HTTP_200_OK
    /\ last.refresh \in DOMAIN auth_tokens
    /\ last.access \in access_tokens(auth_tokens, last.refresh)
    /\ Cardinality(access_tokens(auth_tokens, last.refresh)) = 3
    /\ \A c \in access_tokens(auth_tokens, last.refresh) : c <= last.access
    /\ ActiveFor(SessionId(last.user, last.refresh)) # {}

\* C16: revoke() on a row that is already revoked, at any later instant,
\* leaves the whole store as it is (is_revoked stays true, revoked_at keeps
\* its value, no other row changes); a revoke() followed by a second one
\* equals the first alone.
C16_RevokeIdempotent ==
    \A j \in DOMAIN auth_tokens :
        LET once == revoke(auth_tokens, j, now)
            twice == revoke(once, j, now + 1)
        IN  /\ auth_tokens[j].is_revoked => revoke(auth_tokens, j, now + 1) = auth_tokens
            /\ once[j].is_revoked
            /\ twice = once

\* The admin action on a refresh row revoked at an earlier instant: the row
\* and its child still carry the first revoked_at
C16_Witness ==
    /\ last.op = "revoke"
    /\ last.n = 0
    /\ last.refresh \in DOMAIN auth_tokens
    /\ auth_tokens[last.refresh].is_revoked
    /\ auth_tokens[last.refresh].revoked_at < now
    /\ \E c \in access_tokens(auth_tokens, last.refresh) :
          auth_tokens[c].is_revoked /\ auth_tokens[c].revoked_at < now

\* C17: revoke_all(owner) revokes, with revoked_at = now, exactly the rows
\* of the owner that were not revoked; afterwards every row of the owner
\* is revoked, and the rows of every other principal and the rows that
\* were revoked already (their revoked_at included) are as they were.
C17_RevokeAllFrame ==
    \A u \in Users :
        LET after == revoke_all_user_tokens(auth_tokens, u, now + 1)
        IN  /\ DOMAIN after = DOMAIN auth_tokens
            /\ \A j \in DOMAIN auth_tokens :
                  /\ auth_tokens[j].user = u => after[j].is_revoked
                  /\ (auth_tokens[j].user = u /\ ~auth_tokens[j].is_revoked)
                        => after[j] = [auth_tokens[j] EXCEPT !.is_revoked = TRUE,
                                                             !.revoked_at = now + 1]
                  /\ (auth_tokens[j].user # u \/ auth_tokens[j].is_revoked)
                        => after[j] = auth_tokens[j]

\* A revoke_all of a principal one of whose rows was revoked earlier, while
\* another principal holds a session: the earlier revoked_at is kept, the
\* other rows of the principal are revoked now, the other session is intact
C17_Witness ==
    /\ last.op = "revoke_all"
    /\ \E j \in DOMAIN auth_tokens :
          /\ auth_tokens[j].user = last.user
          /\ auth_tokens[j].is_revoked
          /\ auth_tokens[j].revoked_at < now
    /\ \E j \in DOMAIN auth_tokens :
          /\ auth_tokens[j].user = last.user
          /\ auth_tokens[j].is_revoked
          /\ auth_tokens[j].revoked_at = now
    /\ \A j \in DOMAIN auth_tokens :
          auth_tokens[j].user = last.user => auth_tokens[j].is_revoked
    /\ \E j \in DOMAIN auth_tokens :
          /\ auth_tokens[j].user # last.user
          /\ ~auth_tokens[j].is_revoked
          /\ auth_tokens[j].revoked_at = NULL

\* The session of the refresh token sid is over: its refresh row is revoked
\* or past its expiry
SessionOver(sid) ==
    /\ sid \in DOMAIN auth_tokens
    /\ auth_tokens[sid].token_type = "refresh"
    /\ (auth_tokens[sid].is_revoked \/ is_expired(auth_tokens[sid], now))

\* C18 as stated: whenever the refresh row of a session is revoked or
\* expired while an Assignment of the session is active, eventually no
\* Assignment of the session is active.
C18_AssignmentReleased ==
    \A sid \in 1..LiveMaxJti :
        (SessionOver(sid) /\ ActiveFor(sid) # {}) ~> (ActiveFor(sid) = {})

\* C19 as stated: no step removes an Assignment from the ledger: every row
\* of the ledger is still in it, field by field up to its release, after
\* the step.
C19_AssignmentsNeverDeleted ==
    [][\A i \in DOMAIN assignments :
          \E k \in DOMAIN assignments' :
              /\ assignments'[k].user = assignments[i].user
              /\ assignments'[k].hf_token = assignments[i].hf_token
              /\ assignments'[k].session_identifier = assignments[i].session_identifier
              /\ assignments'[k].assigned_at = assignments[i].assigned_at]_vars

\* C20 as stated: at the step that inserts an Assignment, the pool entry it
\* is bound to has is_active = true.
C20_ActiveAtAssignment ==
    [][\A i \in DOMAIN assignments' \ DOMAIN assignments :
          hf_tokens[assignments'[i].hf_token].is_active]_vars

\* C21 as stated: two logins in flight that have both selected and not yet
\* inserted never hold the same pool entry while another active entry has
\* an equal or smaller count of active Assignments.
C21_SelectInsertOneUnit ==
    \A l1 \in DOMAIN inflight, l2 \in DOMAIN inflight :
        (/\ l1 # l2
         /\ inflight[l1].pc = "selected"
         /\ inflight[l2].pc = "selected"
         /\ inflight[l1].selected_token # NULL
         /\ inflight[l1].selected_token = inflight[l2].selected_token)
        => ~\E g \in ActiveEntries \ {inflight[l1].selected_token} :
               active_count(assignments, g)
                   <= active_count(assignments, inflight[l1].selected_token)

\* The access tokens that pass the structural check and fail the store-side
\* validation
StoreRejected ==
    {a \in RawTokens : /\ StructOK(a, "access", now)
                       /\ StoreValidate(auth_tokens, a, now) # "ok"}

\* C22 as stated: any two structurally valid access tokens that the store
\* rejects, whatever the cause (row deleted or never stored, row revoked,
\* row expired), are rejected with the same signal.
C22_FailureIndistinguishable ==
    \A a \in StoreRejected, b \in StoreRejected :
        StoreValidate(auth_tokens, a, now) = StoreValidate(auth_tokens, b, now)

\* C23: in every reachable state every row has revoked_at set exactly when
\* is_revoked is true.
C23_RevokedAtIffRevoked ==
    \A j \in DOMAIN auth_tokens :
        (auth_tokens[j].revoked_at # NULL) <=> auth_tokens[j].is_revoked

\* A revoke() that has just stamped a refresh row and its child, next to a
\* session that was issued and never revoked
C23_Witness ==
    /\ last.op = "revoke"
    /\ last.n = 1
    /\ last.refresh \in DOMAIN auth_tokens
    /\ auth_tokens[last.refresh].is_revoked
    /\ auth_tokens[last.refresh].revoked_at = now
    /\ \E c \in access_tokens(auth_tokens, last.refresh) :
          auth_tokens[c].is_revoked /\ auth_tokens[c].revoked_at # NULL
    /\ \E j \in DOMAIN auth_tokens :
          ~auth_tokens[j].is_revoked /\ auth_tokens[j].revoked_at = NULL

\* C24 as stated: when revoke() of a refresh row that was not revoked
\* completes, every access child it revoked carries the revoked_at of the
\* refresh row.
C24_SameRevokedAt ==
    [][(RevokeCascade /\ revoking \in DOMAIN auth_tokens')
          => \A c \in access_tokens(auth_tokens, revoking) :
                ~auth_tokens[c].is_revoked
                    => auth_tokens'[c].revoked_at = auth_tokens'[revoking].revoked_at]_vars

\* C25 as stated: once no refresh and no revoke is in progress, no access
\* row that is not revoked has a parent refresh row that is revoked.
C25_NoValidChildOfRevoked ==
    (inflight = <<>> /\ revoking = NULL) =>
        \A c \in DOMAIN auth_tokens :
            (/\ auth_tokens[c].token_type = "access"
             /\ ~auth_tokens[c].is_revoked
             /\ auth_tokens[c].refresh_token \in DOMAIN auth_tokens)
            => ~auth_tokens[auth_tokens[c].refresh_token].is_revoked

\* C26 as stated: once a logout has been answered 200, the access token it
\* presented does not authenticate, the refresh token it presented is not
\* accepted by a refresh, and no access row of that refresh token is left
\* to authenticate with.
C26_LogoutTerminal ==
    (last.op = "logout" /\ last.status = HTTP_200_OK) =>
        /\ authenticate(auth_tokens, last.access, now) = NULL
        /\ last.refresh # NULL =>
              /\ RefreshLookup(auth_tokens, last.refresh, now) = NULL
              /\ \A c \in DOMAIN auth_tokens :
                    auth_tokens[c].refresh_token # last.refresh

\* The cookie r is not the token of a live refresh row: no refresh row has
\* its hash, or the row is revoked, or the row is past its expires_at
RefreshDead(r) ==
    LET j == FindByHash(auth_tokens, r, "refresh")
    IN  \/ j = NULL
        \/ auth_tokens[j].is_revoked
        \/ is_expired(auth_tokens[j], now)

\* C27: a refresh that presents such a cookie is never served: it is
\* answered 401, and the step leaves the token store, the ledger, the pool
\* and the minted tokens as they were.
C27_DeadRefreshRejected ==
    [][\A r \in RawTokens :
          RefreshDead(r)
          => /\ RefreshLookup(auth_tokens, r, now) = NULL
             /\ ~Refresh(r)
             /\ RefreshRejected(r)
                   => /\ last'.status = HTTP_401_UNAUTHORIZED
                      /\ last'.access = NULL
                      /\ UNCHANGED <<auth_tokens, assignments, hf_tokens,
                                     minted, next_jti>>]_vars

\* A rejected refresh that presented the token of a refresh row that is in
\* the store, not revoked, and past its expires_at, while an access row
\* minted from it is still there
C27_Witness ==
    /\ last.op = "refresh"
    /\ last.status = HTTP_401_UNAUTHORIZED
    /\ last.refresh \in DOMAIN auth_tokens
    /\ auth_tokens[last.refresh].token_type = "refresh"
    /\ ~auth_tokens[last.refresh].is_revoked
    /\ is_expired(auth_tokens[last.refresh], now)
    /\ Cardinality(access_tokens(auth_tokens, last.refresh)) = 2

\* C28 as stated: a logout that presents the refresh token of a principal
\* other than the one its access token authenticates leaves every row and
\* every Assignment of that other principal as it was.
C28_LogoutOwnSessionOnly ==
    [][\A a \in RawTokens, r \in RawTokens :
          (/\ minted[r].user # authenticate(auth_tokens, a, now)
           /\ Logout(a, r))
          => /\ \A j \in DOMAIN auth_tokens :
                   auth_tokens[j].user = minted[r].user
                       => /\ j \in DOMAIN auth_tokens'
                          /\ auth_tokens'[j] = auth_tokens[j]
             /\ Len(assignments') = Len(assignments)
             /\ \A i \in DOMAIN assignments :
                   assignments[i].user = minted[r].user
                       => assignments'[i] = assignments[i]]_vars

\* The active Assignments of a user
ActiveOf(user) ==
    {i \in DOMAIN assignments : assignments[i].user = user /\ assignments[i].is_active}

\* C29: the credential resolved for a user (or for no user) is the secret
\* of a pool entry only if that entry is active now and an active
\* Assignment of that same user is bound to it; with no user, with no
\* active Assignment of the user, or with every entry the user's active
\* Assignments are bound to deactivated, it is the configured default.
C29_ResolvedCredential ==
    \A u \in Users \cup {NULL} :
        LET api_token == get_api_token(hf_tokens, assignments, u)
        IN  /\ api_token # HUGGINGFACE_API_TOKEN
                  => /\ u # NULL
                     /\ \E i \in ActiveOf(u) :
                           /\ hf_tokens[assignments[i].hf_token].is_active
                           /\ hf_tokens[assignments[i].hf_token].token = api_token
            /\ (\/ u = NULL
                \/ ActiveOf(u) = {}
                \/ \A i \in ActiveOf(u) : ~hf_tokens[assignments[i].hf_token].is_active)
                  => api_token = HUGGINGFACE_API_TOKEN

\* One user resolves the secret of the active entry its session is bound
\* to, while the other user, with no Assignment, resolves the default
C29_Witness ==
    \E u \in Users, v \in Users :
        /\ ActiveOf(u) # {}
        /\ get_api_token(hf_tokens, assignments, u) # HUGGINGFACE_API_TOKEN
        /\ get_api_token(hf_tokens, assignments, u)
              = hf_tokens[assignments[current_assignment(assignments, u)].hf_token].token
        /\ ActiveOf(v) = {}
        /\ \E j \in DOMAIN auth_tokens : auth_tokens[j].user = v
        /\ get_api_token(hf_tokens, assignments, v) = HUGGINGFACE_API_TOKEN

\* C30: after any number of logins one after the other, with no release
\* and no pool toggle, on a ledger that started empty, the counts of active
\* Assignments of any two active pool entries differ by at most 1.
C30_Balanced ==
    \A g \in ActiveEntries, h \in ActiveEntries :
        active_count(assignments, g) - active_count(assignments, h) <= 1

\* Six logins on four active entries: two entries hold two active
\* Assignments and two hold one
C30_Witness ==
    /\ Cardinality(ActiveEntries) = 4
    /\ Len(assignments) = 6
    /\ \A i \in DOMAIN assignments : assignments[i].is_active
    /\ Cardinality({h \in ActiveEntries : active_count(assignments, h) = 2}) = 2
    /\ Cardinality({h \in ActiveEntries : active_count(assignments, h) = 1}) = 2

====
